---------------------------- MODULE Spec2Model ----------------------------
(***************************************************************************)
(* A model of the image-to-ASCII converter of src/src/main.rs:             *)
(*   - the ramp index computed per pixel (f64 arithmetic, truncation),     *)
(*   - Display for AsciiImage (text mode),                                 *)
(*   - AsciiImage::rasterize (glyph cache, then compositing),              *)
(*   - Scaler::parse and Scaler::scale,                                    *)
(*   - main (argument handling, existence checks, pipeline order).         *)
(***************************************************************************)
EXTENDS Integers, Sequences, FiniteSets, TLC

VARIABLES
    pc,            \* position in main / in the function under check
    args,          \* inputs: command line arguments or function arguments
    fs,            \* the file system as main sees it: which paths exist, decode ok
    img,           \* the grayscale image (self.0), after load / resize
    ascii,         \* the character ramp (self.1)
    scaler,        \* the Scaler built by Scaler::parse
    font,          \* the loaded Font: what it renders for each character
    font_size,     \* the cell size in pixels (px)
    cache,         \* RasterCache of rasterize
    canvas,        \* the output image buffer of rasterize
    iter,          \* loop position of the running loop
    ret,           \* value returned by the function under check / output written
    exit,          \* how the process ended
    stages         \* pipeline stages executed so far, in order

vars == <<pc, args, fs, img, ascii, scaler, font, font_size, cache, canvas, iter, ret, exit, stages>>

\* Option: None, or Some(v)
None == << >>
Some(v) == <<v>>

(***************************************************************************)
(* Bounds of the model.                                                    *)
(***************************************************************************)
MaxQuantLen == 53      \* ramp lengths 1..MaxQuantLen for the ramp index
MaxScaleDim == 15      \* image sides and requested sides for Scaler::scale
MaxStrLen == 5         \* length of a --scale argument for Scaler::parse
MaxW == 4              \* image width in text mode
MaxH == 4              \* image height in text mode
MaxRampLen == 3        \* ramp length in text mode
MaxPx == 3             \* cell size when one glyph is rasterized
MaxCells == 2          \* image width and height in raster mode
MaxCellPx == 2         \* cell size in raster mode
MaxRasterRamp == 3     \* ramp length in raster mode

(***************************************************************************)
(* f64 arithmetic.  A finite non-negative double is zero or                *)
(*     (2^52 + x1*2^39 + x2*2^26 + x3*2^13 + x4) * 2^(e - 52)              *)
(* with four 13-bit limbs x1..x4 below the leading 1 of the 53-bit         *)
(* significand.  Rounding is to nearest, ties to even, as the hardware     *)
(* does it.  The operands of the program are u8/u32/usize values converted *)
(* with `as f64`, which is exact; the operators below take them as         *)
(* integers (below 2^13, so that every intermediate stays a machine        *)
(* integer of the checker).                                                *)
(***************************************************************************)
RECURSIVE Pow2(_)
Pow2(n) == IF n = 0 THEN 1 ELSE 2 * Pow2(n - 1)

Limb == Pow2(13)

F64Zero == [x |-> <<>>, e |-> 0]

\* least t with a * 2^t >= b   (a >= 1, b >= 1)
RECURSIVE ShiftUp(_, _)
ShiftUp(a, b) == IF a >= b THEN 0 ELSE 1 + ShiftUp(2 * a, b)

\* greatest t with b * 2^t <= a   (a >= b >= 1)
RECURSIVE ShiftDown(_, _)
ShiftDown(a, b) == IF 2 * b > a THEN 0 ELSE 1 + ShiftDown(a, 2 * b)

\* number of bits of n >= 1
RECURSIVE BitLen(_)
BitLen(n) == IF n <= 1 THEN 1 ELSE 1 + BitLen(n \div 2)

\* the significand 1.x1x2x3x4 (exponent e) plus one unit in the last place
\* when `up`; a carry out of the top renormalises to 1.0 * 2^(e+1)
F64RoundUp(x, e, up) ==
    IF ~up THEN [x |-> x, e |-> e]
    ELSE IF x[4] + 1 < Limb THEN [x |-> <<x[1], x[2], x[3], x[4] + 1>>, e |-> e]
    ELSE IF x[3] + 1 < Limb THEN [x |-> <<x[1], x[2], x[3] + 1, 0>>, e |-> e]
    ELSE IF x[2] + 1 < Limb THEN [x |-> <<x[1], x[2] + 1, 0, 0>>, e |-> e]
    ELSE IF x[1] + 1 < Limb THEN [x |-> <<x[1] + 1, 0, 0, 0>>, e |-> e]
    ELSE [x |-> <<0, 0, 0, 0>>, e |-> e + 1]

\* (a as f64) / (b as f64) for integers a >= 0, b >= 1
F64DivU(a, b) ==
    IF a = 0 THEN F64Zero
    ELSE LET up == ShiftUp(a, b)
             down == IF a >= b THEN ShiftDown(a, b) ELSE 0
             num == a * Pow2(up)
             den == b * Pow2(down)
             \* num / den is in [1, 2): long division, 13 bits at a time
             r0 == num - den
             x1 == (r0 * Limb) \div den
             r1 == (r0 * Limb) % den
             x2 == (r1 * Limb) \div den
             r2 == (r1 * Limb) % den
             x3 == (r2 * Limb) \div den
             r3 == (r2 * Limb) % den
             x4 == (r3 * Limb) \div den
             r4 == (r3 * Limb) % den
             half == (2 * r4) \div den
             rest == (2 * r4) % den
             roundUp == half = 1 /\ (rest # 0 \/ x4 % 2 = 1)
         IN  F64RoundUp(<<x1, x2, x3, x4>>, down - up, roundUp)

\* x * (n as f64) for an integer n >= 0
F64MulU(x, n) ==
    IF x.x = <<>> \/ n = 0 THEN F64Zero
    ELSE LET p4 == x.x[4] * n
             p3 == x.x[3] * n + p4 \div Limb
             p2 == x.x[2] * n + p3 \div Limb
             p1 == x.x[1] * n + p2 \div Limb
             top == n + p1 \div Limb
             \* the product is top * 2^52 + (y1 y2 y3 y4); drop d low bits
             y1 == p1 % Limb
             y2 == p2 % Limb
             y3 == p3 % Limb
             y4 == p4 % Limb
             d == BitLen(top) - 1
             lo == Pow2(d)
             hi == Limb \div lo
             z1 == (top % lo) * hi + y1 \div lo
             z2 == (y1 % lo) * hi + y2 \div lo
             z3 == (y2 % lo) * hi + y3 \div lo
             z4 == (y3 % lo) * hi + y4 \div lo
             dropped == y4 % lo
             roundUp == d > 0 /\
                        \/ 2 * dropped > lo
                        \/ 2 * dropped = lo /\ z4 % 2 = 1
         IN  F64RoundUp(<<z1, z2, z3, z4>>, x.e + d, roundUp)

\* the integer made of the leading 1 and the next k bits of the limbs
RECURSIVE TopBits(_, _, _)
TopBits(acc, limbs, k) ==
    IF k = 0 \/ limbs = <<>> THEN acc
    ELSE IF k >= 13 THEN TopBits(acc * Limb + Head(limbs), Tail(limbs), k - 13)
    ELSE acc * Pow2(k) + Head(limbs) \div Pow2(13 - k)

\* x.trunc() as an integer (the `as usize` / `as u32` of a value in range)
F64Trunc(x) ==
    IF x.x = <<>> \/ x.e < 0 THEN 0
    ELSE TopBits(1, x.x, x.e)

(***************************************************************************)
(* Values shared by the operations.                                        *)
(***************************************************************************)
Panic == "Panic"        \* the value of a character expression that panicked

\* the outcome of a call: a value, or a panic with its message (a tuple of
\* the message and what it names)
Ok(v) == [ok |-> TRUE, val |-> v]
Panicked(msg) == [ok |-> FALSE, msg |-> msg]

\* a GrayImage: width, height and the row-major Vec<u8> of samples
Image(w, h, data) == [width |-> w, height |-> h, data |-> data]

get_pixel(image, x, y) == image.data[y * image.width + x + 1]

NoImage == Image(0, 0, <<>>)

\* what each variable holds while the operation it belongs to is not running
Idle(v) ==
    CASE v = "fs" -> [input |-> TRUE, decodes |-> TRUE, font |-> TRUE]
      [] v = "img" -> NoImage
      [] v = "ascii" -> << >>
      [] v = "scaler" -> None
      [] v = "font" -> None
      [] v = "font_size" -> 0
      [] v = "cache" -> << >>
      [] v = "canvas" -> None
      [] v = "iter" -> 0
      [] v = "ret" -> None
      [] v = "exit" -> [code |-> "running", msg |-> << >>]
      [] v = "stages" -> << >>

(***************************************************************************)
(* The ramp index of a sample (rasterize and fmt compute it with the same  *)
(* expression):                                                            *)
(*   (luma as f64 / 255. * (self.1.len() - 1) as f64).trunc() as usize     *)
(***************************************************************************)
quantize_len(luma, len) == F64Trunc(F64MulU(F64DivU(luma, 255), len))

quantize(luma, len) == F64Trunc(F64MulU(F64DivU(luma, 255), len - 1))

\* self.1[index]: `len() - 1` underflows on an empty ramp (a panic in a
\* debug build; in a release build it wraps and the index is out of bounds,
\* a panic too), and indexing checks its bound
ramp_char(ramp, luma) ==
    IF Len(ramp) = 0 THEN Panic
    ELSE LET index == quantize(luma, Len(ramp))
         IN  IF index < Len(ramp) THEN ramp[index + 1] ELSE Panic

(***************************************************************************)
(* The ramp index over all samples: the samples 0, 1, ..., 255 are         *)
(* quantized one after the other against a ramp of a given length.         *)
(***************************************************************************)
MaxSample == 255

InitQuantize ==
    /\ pc = "quantize"
    /\ args \in [len : 1..MaxQuantLen]
    /\ iter = 0
    /\ ret = << >>
    /\ fs = Idle("fs") /\ img = Idle("img") /\ ascii = Idle("ascii")
    /\ scaler = Idle("scaler") /\ font = Idle("font") /\ cache = Idle("cache")
    /\ font_size = Idle("font_size")
    /\ canvas = Idle("canvas") /\ exit = Idle("exit") /\ stages = Idle("stages")

QuantizeSample ==
    /\ pc = "quantize"
    /\ iter <= MaxSample
    /\ ret' = Append(ret, quantize(iter, args.len))
    /\ iter' = iter + 1
    /\ UNCHANGED <<pc, args, fs, img, ascii, scaler, font, font_size, cache, canvas, exit, stages>>

NextQuantize == QuantizeSample

SpecQuantize == InitQuantize /\ [][NextQuantize]_vars

\* C1: for every sample 0..255 and every ramp length L >= 1 the ramp index
\* is non-decreasing in the sample, is 0 for sample 0 and L - 1 for sample
\* 255, and always lies in 0..L-1 (no out-of-bounds ramp access).
C1_IndexMonotoneInRange ==
    pc = "quantize" =>
        /\ \A i \in 1..Len(ret) : 0 <= ret[i] /\ ret[i] < args.len
        /\ \A i \in 1..(Len(ret) - 1) : ret[i] <= ret[i + 1]
        /\ Len(ret) >= 1 => ret[1] = 0
        /\ Len(ret) = MaxSample + 1 => ret[MaxSample + 1] = args.len - 1

\* all 256 samples quantized against a ramp on which the index moves
C1_Witness ==
    /\ pc = "quantize" /\ Len(ret) = MaxSample + 1 /\ args.len >= 3
    /\ ret[129] > 0 /\ ret[129] < args.len - 1

(***************************************************************************)
(* impl Display for AsciiImage: the text of an image.  A String is the     *)
(* sequence of its characters.                                             *)
(***************************************************************************)
CR == "\r"
LF == "\n"

\* c.to_string().repeat(n)
RECURSIVE repeat(_, _)
repeat(c, n) == IF n = 0 THEN << >> ELSE <<c>> \o repeat(c, n - 1)

\* row.map(|luma| ...).collect::<String>() from column x on
RECURSIVE row_string(_, _, _, _)
row_string(image, ramp, y, x) ==
    IF x >= image.width THEN << >>
    ELSE repeat(ramp_char(ramp, get_pixel(image, x, y)), 2)
             \o row_string(image, ramp, y, x + 1)

\* rows.join(sep) from row y on
RECURSIVE join_rows(_, _, _, _)
join_rows(image, ramp, y, sep) ==
    IF y >= image.height THEN << >>
    ELSE row_string(image, ramp, y, 0)
             \o (IF y + 1 < image.height THEN sep ELSE << >>)
             \o join_rows(image, ramp, y + 1, sep)

\* a row followed by a terminator, every row
RECURSIVE terminated_rows(_, _, _, _)
terminated_rows(image, ramp, y, sep) ==
    IF y >= image.height THEN << >>
    ELSE row_string(image, ramp, y, 0) \o sep
             \o terminated_rows(image, ramp, y + 1, sep)

Display_fmt_terminated(image, ramp) ==
    IF \E i \in 1..Len(image.data) : ramp_char(ramp, image.data[i]) = Panic
    THEN Panicked(<<"ramp index">>)
    ELSE Ok(terminated_rows(image, ramp, 0, <<CR, LF>>))

\* the text, or the panic of the first ramp access that fails
Display_fmt(image, ramp) ==
    IF \E i \in 1..Len(image.data) : ramp_char(ramp, image.data[i]) = Panic
    THEN Panicked(<<"ramp index">>)
    ELSE Ok(join_rows(image, ramp, 0, <<CR, LF>>))

(***************************************************************************)
(* Images and ramps the operations are run on.                             *)
(***************************************************************************)
Samples == <<0, 127, 128, 255>>

\* the sample at position i of pattern (a, b): a uniform image for b = 0
PatternData(n, a, b) == [i \in 1..n |-> Samples[((a + b * (i - 1)) % Len(Samples)) + 1]]

Images(maxW, maxH) ==
    { Image(w, h, PatternData(w * h, a, b)) :
        w \in 1..maxW, h \in 1..maxH, a \in 0..(Len(Samples) - 1), b \in 0..2 }

RampChars == {"#", ".", " "}

Ramps(minLen, maxLen) == UNION { [1..n -> RampChars] : n \in minLen..maxLen }

(***************************************************************************)
(* Text mode: ascii_image.to_string() of an image and a non-empty ramp.    *)
(***************************************************************************)
InitFmt ==
    /\ pc = "fmt"
    /\ args = None
    /\ img \in Images(MaxW, MaxH)
    /\ ascii \in Ramps(1, MaxRampLen)
    /\ ret = None
    /\ fs = Idle("fs") /\ scaler = Idle("scaler") /\ font = Idle("font")
    /\ iter = Idle("iter") /\ cache = Idle("cache") /\ canvas = Idle("canvas")
    /\ font_size = Idle("font_size")
    /\ exit = Idle("exit") /\ stages = Idle("stages")

Fmt ==
    /\ pc = "fmt"
    /\ ret' = Display_fmt(img, ascii)
    /\ pc' = "done"
    /\ UNCHANGED <<args, fs, img, ascii, scaler, font, font_size, cache, canvas, iter, exit, stages>>

NextFmt == Fmt

SpecFmt == InitFmt /\ [][NextFmt]_vars

\* position in the text of the k-th copy (k = 0, 1) of the character of
\* pixel (x, y): rows of 2*w characters, two characters of separator
TextPos(w, x, y, k) == y * (2 * w + 2) + 2 * x + k + 1

\* C2: text mode over a w x h image with a non-empty ramp gives exactly h
\* rows in image row order; row y holds, for x = 0..w-1 in order, the
\* character ramp[quantize(pixel(x,y))] exactly twice; consecutive rows are
\* separated by exactly one CR LF pair and nothing follows the last row.
C2_TextLayout ==
    pc = "done" =>
        LET w == img.width
            h == img.height
        IN  /\ ret.ok
            /\ Len(ret.val) = h * 2 * w + 2 * (h - 1)
            /\ \A y \in 0..(h - 1) : \A x \in 0..(w - 1) : \A k \in 0..1 :
                   ret.val[TextPos(w, x, y, k)]
                       = ascii[quantize(get_pixel(img, x, y), Len(ascii)) + 1]
            /\ \A y \in 0..(h - 2) :
                   /\ ret.val[TextPos(w, w, y, 0)] = CR
                   /\ ret.val[TextPos(w, w, y, 1)] = LF

\* the scenario of the specification: a uniformly white 4x4 image with the
\* ramp "#. " gives four rows of eight spaces joined by three CR LF
C2_Witness ==
    /\ pc = "done"
    /\ img = Image(4, 4, [i \in 1..16 |-> 255])
    /\ ascii = <<"#", ".", " ">>
    /\ ret = Ok(repeat(" ", 8) \o <<CR, LF>> \o repeat(" ", 8) \o <<CR, LF>>
                   \o repeat(" ", 8) \o <<CR, LF>> \o repeat(" ", 8))


(***************************************************************************)
(* Scaler::parse.  The argument is the sequence of its characters.         *)
(***************************************************************************)
Digits == <<"0", "1", "2", "3", "4", "5", "6", "7", "8", "9">>

IsDigit(c) == \E i \in 1..Len(Digits) : Digits[i] = c

DigitVal(c) == (CHOOSE i \in 1..Len(Digits) : Digits[i] = c) - 1

RECURSIVE digits_value(_, _)
digits_value(acc, ds) ==
    IF ds = << >> THEN acc ELSE digits_value(acc * 10 + DigitVal(Head(ds)), Tail(ds))

\* str::parse::<u32>(): an optional '+', then one or more decimal digits.
\* (A value above u32::MAX is an error too; the arguments of the model are
\* too short to reach it.)
parse_u32(str) ==
    LET ds == IF str # << >> /\ Head(str) = "+" THEN Tail(str) ELSE str
    IN  IF ds = << >> \/ \E i \in 1..Len(ds) : ~IsDigit(ds[i])
        THEN Panicked(<<"parse">>)
        ELSE Ok(digits_value(0, ds))

\* str::split(":"): the fields between the separators, empty ones included
RECURSIVE split(_, _)
split(str, field) ==
    IF str = << >> THEN <<field>>
    ELSE IF Head(str) = ":" THEN <<field>> \o split(Tail(str), << >>)
    ELSE split(Tail(str), Append(field, Head(str)))

\* the closure of the map: "_" is None, anything else must parse
parse_size(s) ==
    IF s = <<"_">> THEN Ok(None)
    ELSE LET n == parse_u32(s)
         IN  IF n.ok THEN Ok(Some(n.val))
             ELSE Panicked(<<"couldn't parse scale value as u32">>)

Scaler(w, h) == [w |-> w, h |-> h]

\* as Scaler::parse, without the assertion on the number of fields
Scaler_parse_unchecked(scale) ==
    LET fields == split(scale, << >>)
        sizes == [i \in 1..Len(fields) |-> parse_size(fields[i])]
    IN  IF \E i \in 1..Len(sizes) : ~sizes[i].ok
        THEN Panicked(<<"couldn't parse scale value as u32">>)
        ELSE IF Len(sizes) = 1 THEN Ok(Scaler(sizes[1].val, sizes[1].val))
        ELSE Ok(Scaler(sizes[1].val, sizes[2].val))

Scaler_parse(scale) ==
    LET fields == split(scale, << >>)
        sizes == [i \in 1..Len(fields) |-> parse_size(fields[i])]
    IN  IF \E i \in 1..Len(sizes) : ~sizes[i].ok
        THEN Panicked(<<"couldn't parse scale value as u32">>)
        ELSE IF Len(sizes) = 1 THEN Ok(Scaler(sizes[1].val, sizes[1].val))
        ELSE IF Len(sizes) # 2 THEN Panicked(<<"invalid scale value">>)
        ELSE Ok(Scaler(sizes[1].val, sizes[2].val))

ScaleChars == {"0", "1", "5", "_", ":", "x", "+"}

Strings(maxLen) == UNION { [1..n -> ScaleChars] : n \in 0..maxLen }

InitParse ==
    /\ pc = "parse"
    /\ args \in [scale : Strings(MaxStrLen)]
    /\ ret = None
    /\ fs = Idle("fs") /\ img = Idle("img") /\ ascii = Idle("ascii")
    /\ scaler = Idle("scaler") /\ font = Idle("font") /\ iter = Idle("iter")
    /\ cache = Idle("cache") /\ canvas = Idle("canvas")
    /\ font_size = Idle("font_size")
    /\ exit = Idle("exit") /\ stages = Idle("stages")

Parse ==
    /\ pc = "parse"
    /\ ret' = Scaler_parse(args.scale)
    /\ pc' = "done"
    /\ UNCHANGED <<args, fs, img, ascii, scaler, font, font_size, cache, canvas, iter, exit, stages>>

NextParse == Parse

SpecParse == InitParse /\ [][NextParse]_vars

\* the places of the separators of an argument
Colons(str) == { i \in 1..Len(str) : str[i] = ":" }

\* "_" is absent, a decimal number is its value
IsField(str) == str = <<"_">> \/ parse_u32(str).ok
FieldValue(str) == IF str = <<"_">> THEN None ELSE Some(parse_u32(str).val)

\* C8: Scaler::parse splits on ':' and maps each field to an optional
\* dimension; one field f gives (f, f) ("100" gives (100,100)); exactly two
\* fields give (first, second) ("100:_" gives (100,None), "_:50" gives
\* (None,50)); more than two fields are rejected with a fatal error.
C8_ParseFields ==
    pc = "done" =>
        LET str == args.scale
            n == Cardinality(Colons(str)) + 1
            c == CHOOSE i \in Colons(str) : TRUE
            first == SubSeq(str, 1, c - 1)
            second == SubSeq(str, c + 1, Len(str))
        IN  /\ n > 2 => ~ret.ok
            /\ n = 1 /\ IsField(str) =>
                   ret = Ok(Scaler(FieldValue(str), FieldValue(str)))
            /\ n = 2 /\ IsField(first) /\ IsField(second) =>
                   ret = Ok(Scaler(FieldValue(first), FieldValue(second)))
            /\ ret.ok => n <= 2
            /\ str = <<"1", "0", "0">> => ret = Ok(Scaler(Some(100), Some(100)))
            /\ str = <<"1", "0", "0", ":", "_">> => ret = Ok(Scaler(Some(100), None))
            /\ str = <<"_", ":", "5", "0">> => ret = Ok(Scaler(None, Some(50)))

\* an argument of three well-formed fields has been parsed (and rejected)
C8_Witness ==
    /\ pc = "done"
    /\ args.scale = <<"1", ":", "_", ":", "5">>
    /\ ~ret.ok

(***************************************************************************)
(* Scaler::scale.  imageops::resize is the library's: it returns an image  *)
(* of exactly the requested size whose samples its filter decides.         *)
(***************************************************************************)
Uniform(w, h, v) == Image(w, h, [i \in 1..(w * h) |-> v])

\* what resize(image, nwidth, nheight, filter) may return
resize(image, nwidth, nheight) ==
    { Uniform(nwidth, nheight, Samples[k]) : k \in 1..Len(Samples) }

\* the aspect-preserving side:  given as f64 / from as f64 * other as f64,
\* then `as u32` (which truncates)
scaled_side(given, from, other) == F64Trunc(F64MulU(F64DivU(given, from), other))

\* the images Scaler::scale may return
Scaler_scale(s, image) ==
    IF s.w # None /\ s.h # None THEN resize(image, s.w[1], s.h[1])
    ELSE IF s.w # None
    THEN resize(image, s.w[1], scaled_side(s.w[1], image.width, image.height))
    ELSE IF s.h # None
    THEN resize(image, scaled_side(s.h[1], image.height, image.width), s.h[1])
    ELSE { Image(image.width, image.height, image.data) }

Sizes(maxDim) == {None} \cup { Some(n) : n \in 0..maxDim }

InitScale ==
    /\ pc = "scale"
    /\ args = None
    /\ scaler \in { Scaler(w, h) : w \in Sizes(MaxScaleDim), h \in {None, Some(0), Some(1), Some(MaxScaleDim)} }
                  \cup { Scaler(None, h) : h \in Sizes(MaxScaleDim) }
    /\ img \in { Uniform(w, h, 255) : w \in 1..MaxScaleDim, h \in 1..MaxScaleDim }
    /\ ret = None
    /\ fs = Idle("fs") /\ ascii = Idle("ascii") /\ font = Idle("font")
    /\ iter = Idle("iter") /\ cache = Idle("cache") /\ canvas = Idle("canvas")
    /\ font_size = Idle("font_size")
    /\ exit = Idle("exit") /\ stages = Idle("stages")

Scale ==
    /\ pc = "scale"
    /\ ret' \in Scaler_scale(scaler, img)
    /\ pc' = "done"
    /\ UNCHANGED <<args, fs, img, ascii, scaler, font, font_size, cache, canvas, iter, exit, stages>>

NextScale == Scale

SpecScale == InitScale /\ [][NextScale]_vars

Abs(n) == IF n < 0 THEN -n ELSE n

\* C9: with exactly one target dimension given, for a source of sw x sh
\* (sw, sh > 0), the output has the given dimension exactly as requested and
\* the other equal to given * (source_other / source_given) truncated, so
\* that it differs from the exact aspect-preserving size by less than one
\* pixel:  |other - given * source_other / source_given| < 1.
C9_AspectWithinOnePixel ==
    pc = "done" =>
        /\ scaler.w # None /\ scaler.h = None =>
               /\ ret.width = scaler.w[1]
               /\ ret.height = (scaler.w[1] * img.height) \div img.width
               /\ Abs(ret.height * img.width - scaler.w[1] * img.height) < img.width
        /\ scaler.w = None /\ scaler.h # None =>
               /\ ret.height = scaler.h[1]
               /\ ret.width = (scaler.h[1] * img.width) \div img.height
               /\ Abs(ret.width * img.height - scaler.h[1] * img.width) < img.height

(***************************************************************************)
(* The glyph of one character (the closure of rasterize, lines 26-59).     *)
(* font.rasterize is the library's: it returns the metrics of the rendered *)
(* glyph and its coverage bitmap, width * height samples in row-major      *)
(* order.                                                                  *)
(***************************************************************************)
Glyph(w, h, bitmap) == [width |-> w, height |-> h, bitmap |-> bitmap]

\* img.put_pixel(x, y, v): out of bounds is a panic
put_pixel(image, x, y, v) ==
    IF ~image.ok THEN image
    ELSE IF x >= image.val.width \/ y >= image.val.height
    THEN Panicked(<<"Image index out of bounds">>)
    ELSE Ok([image.val EXCEPT !.data[y * image.val.width + x + 1] = v])

\* the inner loop of lines 49-55 from column x on: `taken` samples of the
\* bitmap have been handed out by its iterator so far
RECURSIVE glyph_row(_, _, _, _, _, _)
glyph_row(image, g, dx, y, x, taken) ==
    IF x >= g.width + dx \/ ~image.ok THEN image
    ELSE IF taken >= Len(g.bitmap) THEN Panicked(<<"rasterized image buffer too small">>)
    ELSE glyph_row(put_pixel(image, x, y, 255 - g.bitmap[taken + 1]),
                   g, dx, y, x + 1, taken + 1)

\* the outer loop of lines 48-56 from row y on
RECURSIVE glyph_rows(_, _, _, _, _)
glyph_rows(image, g, dx, dy, y) ==
    IF y >= g.height + dy \/ ~image.ok THEN image
    ELSE glyph_rows(glyph_row(image, g, dx, y, dx, (y - dy) * g.width),
                    g, dx, dy, y + 1)

glyph_loop(image, g, dx, dy) == glyph_rows(image, g, dx, dy, dy)

WontFit(c) == <<"rastered image won't fit in bounding box", c>>

\* as rasterize_glyph, with the glyph placed at the far edge of the cell
rasterize_glyph_uncentred(c, g, px) ==
    IF g.height > px THEN Panicked(WontFit(c))
    ELSE IF g.width > px THEN Panicked(WontFit(c))
    ELSE glyph_loop(Ok(Uniform(px, px, 255)), g, px - g.width, px - g.height)

\* as rasterize_glyph, with a cell that must be strictly larger than the glyph
rasterize_glyph_strict(c, g, px) ==
    IF g.height >= px THEN Panicked(WontFit(c))
    ELSE IF g.width >= px THEN Panicked(WontFit(c))
    ELSE glyph_loop(Ok(Uniform(px, px, 255)), g,
                    (px - g.width) \div 2, (px - g.height) \div 2)

\* the cell of character c, whose glyph the font rendered as g
rasterize_glyph(c, g, px) ==
    IF g.height > px THEN Panicked(WontFit(c))
    ELSE IF g.width > px THEN Panicked(WontFit(c))
    ELSE glyph_loop(Ok(Uniform(px, px, 255)), g,
                    (px - g.width) \div 2, (px - g.height) \div 2)

\* coverage bitmaps: sample i is (a + b * i) mod 256
Coverage(n, a, b) == [i \in 1..n |-> (a + b * (i - 1)) % 256]

InitGlyph ==
    /\ pc = "glyph"
    /\ font_size \in 1..MaxPx
    /\ \E w \in 0..(font_size + 2), h \in 0..(font_size + 2),
          a \in {0, 100, 255}, b \in {0, 1, 37} :
          args = [c |-> "#", glyph |-> Glyph(w, h, Coverage(w * h, a, b))]
    /\ ret = None
    /\ fs = Idle("fs") /\ img = Idle("img") /\ ascii = Idle("ascii")
    /\ scaler = Idle("scaler") /\ font = Idle("font") /\ iter = Idle("iter")
    /\ cache = Idle("cache") /\ canvas = Idle("canvas")
    /\ exit = Idle("exit") /\ stages = Idle("stages")

RasterizeGlyph ==
    /\ pc = "glyph"
    /\ ret' = rasterize_glyph(args.c, args.glyph, font_size)
    /\ pc' = "done"
    /\ UNCHANGED <<args, fs, img, ascii, scaler, font, font_size, cache, canvas, iter, exit, stages>>

NextGlyph == RasterizeGlyph

SpecGlyph == InitGlyph /\ [][NextGlyph]_vars

\* C10: for a glyph of w x h with w, h <= cellSize and a coverage bitmap of
\* w*h samples, with dx = floor((cellSize - w) / 2), dy = floor((cellSize -
\* h) / 2): the cell holds 255 - coverage[(y - dy) * w + (x - dx)] at every
\* (x, y) with dx <= x < dx + w and dy <= y < dy + h, 255 everywhere else,
\* and no write falls outside the cellSize x cellSize canvas.
C10_GlyphCentredInverted ==
    pc = "done" =>
        LET g == args.glyph
            px == font_size
            dx == (px - g.width) \div 2
            dy == (px - g.height) \div 2
        IN  g.width <= px /\ g.height <= px /\ Len(g.bitmap) = g.width * g.height =>
              /\ ret.ok
              /\ ret.val.width = px /\ ret.val.height = px
              /\ Len(ret.val.data) = px * px
              /\ \A x \in 0..(px - 1), y \in 0..(px - 1) :
                    get_pixel(ret.val, x, y) =
                        IF dx <= x /\ x < dx + g.width /\ dy <= y /\ y < dy + g.height
                        THEN 255 - g.bitmap[(y - dy) * g.width + (x - dx) + 1]
                        ELSE 255

\* a glyph narrower and shorter than the cell, off-centre by the floor, with
\* a bitmap whose samples all differ, has been placed
C10_Witness ==
    /\ pc = "done" /\ ret.ok
    /\ font_size = 3 /\ args.glyph.width = 2 /\ args.glyph.height = 1
    /\ args.glyph.bitmap = <<100, 101>>
    /\ ret.val.data = <<255, 255, 255, 155, 154, 255, 255, 255, 255>>

(***************************************************************************)
(* AsciiImage::rasterize, step by step: the glyph cache is collected from  *)
(* the ramp one character at a time (lines 26-59), the canvas is allocated *)
(* (61-62), the image is composited one pixel at a time (64-79).  The      *)
(* caller then saves the canvas (main, 293-296).                           *)
(***************************************************************************)
Running == [code |-> "running", msg |-> << >>]
Exited(code, msg) == [code |-> code, msg |-> msg]

\* a panic ends the process with status 101; the work of the run is dropped
Abort(msg) ==
    /\ pc' = "done"
    /\ exit' = Exited(101, msg)

\* a map that keeps no more than the entry just made
insert_only(map, k, v) == [x \in {k} |-> v]

\* HashMap insert: a later entry for the same key replaces the earlier one
insert(map, k, v) == [x \in DOMAIN map \cup {k} |-> IF x = k THEN v ELSE map[x]]

Range(seq) == { seq[i] : i \in 1..Len(seq) }

CacheGlyph ==
    /\ pc = "cache"
    /\ iter <= Len(ascii)
    /\ LET c == ascii[iter]
           g == rasterize_glyph(c, font[c], font_size)
       IN  IF g.ok
           THEN /\ cache' = insert(cache, c, g.val)
                /\ iter' = iter + 1
                /\ UNCHANGED <<pc, exit>>
           ELSE /\ Abort(g.msg)
                /\ UNCHANGED <<cache, iter>>
    /\ stages' = Append(stages, "glyph")
    /\ UNCHANGED <<args, fs, img, ascii, scaler, font, font_size, canvas, ret>>

\* ImageBuffer::new: a zeroed buffer of width * px by height * px
AllocCanvas ==
    /\ pc = "cache"
    /\ iter > Len(ascii)
    /\ canvas' = Uniform(img.width * font_size, img.height * font_size, 0)
    /\ pc' = "composite"
    /\ iter' = 0
    /\ UNCHANGED <<args, fs, img, ascii, scaler, font, font_size, cache, ret, exit, stages>>

\* a block copy with the block coordinates exchanged
put_block_transposed(image, raster, ix, iy, px) ==
    [image EXCEPT !.data =
        [i \in 1..Len(image.data) |->
            LET x == (i - 1) % image.width
                y == (i - 1) \div image.width
            IN  IF /\ iy * px <= x /\ x < iy * px + px
                   /\ ix * px <= y /\ y < ix * px + px
                THEN get_pixel(raster, x - iy * px, y - ix * px)
                ELSE image.data[i]]]

\* the px x px block at (ix * px, iy * px) overwritten with the raster
put_block(image, raster, ix, iy, px) ==
    [image EXCEPT !.data =
        [i \in 1..Len(image.data) |->
            LET x == (i - 1) % image.width
                y == (i - 1) \div image.width
            IN  IF /\ ix * px <= x /\ x < ix * px + px
                   /\ iy * px <= y /\ y < iy * px + px
                THEN get_pixel(raster, x - ix * px, y - iy * px)
                ELSE image.data[i]]]

\* one turn of the loops over iy and ix: pixel number iter in row-major order
Composite ==
    /\ pc = "composite"
    /\ iter < img.width * img.height
    /\ LET ix == iter % img.width
           iy == iter \div img.width
           c == ramp_char(ascii, get_pixel(img, ix, iy))
       IN  IF c = Panic
           THEN /\ Abort(<<"ramp index">>)
                /\ UNCHANGED <<canvas, iter>>
           ELSE IF c \notin DOMAIN cache
           THEN /\ Abort(<<"called Option::unwrap() on a None value">>)
                /\ UNCHANGED <<canvas, iter>>
           ELSE /\ canvas' = put_block(canvas, cache[c], ix, iy, font_size)
                /\ iter' = iter + 1
                /\ UNCHANGED <<pc, exit>>
    /\ stages' = Append(stages, "composite")
    /\ UNCHANGED <<args, fs, img, ascii, scaler, font, font_size, cache, ret>>

\* .save(output).expect("failed to write output file")
Save ==
    /\ pc = "composite"
    /\ iter >= img.width * img.height
    /\ \/ /\ ret' = Some(canvas)
          /\ pc' = "done"
          /\ exit' = Exited(0, << >>)
       \/ /\ Abort(<<"failed to write output file">>)
          /\ UNCHANGED ret
    /\ UNCHANGED <<args, fs, img, ascii, scaler, font, font_size, cache, canvas, iter, stages>>

(***************************************************************************)
(* Raster mode on its own: rasterize and save, for an image, a ramp, a     *)
(* cell size and a font.                                                   *)
(***************************************************************************)
RasterChars == {"#", " "}

\* the sizes a font may render a character at, around the cell size
GlyphShapes(px) == { <<px, px>>, <<px + 1, px>>, <<px, px + 1>>, <<px - 1, px - 1>> }

CharSeed(c) == IF c = "#" THEN 200 ELSE IF c = "." THEN 90 ELSE 3

\* the fonts over a set of characters: each renders every character at one
\* of the shapes, with a bitmap of its own
Fonts(chars, px) ==
    { [c \in chars |-> Glyph(shape[c][1], shape[c][2],
                             Coverage(shape[c][1] * shape[c][2], CharSeed(c), 1))] :
        shape \in [chars -> GlyphShapes(px)] }

RasterImages ==
    { Image(w, h, PatternData(w * h, a, 1)) : w \in 1..MaxCells, h \in 1..MaxCells, a \in {0, 2} }
        \cup { Uniform(w, h, 0) : w \in 1..MaxCells, h \in 1..MaxCells }

InitRasterize ==
    /\ pc = "cache"
    /\ args = None
    /\ img \in RasterImages
    /\ ascii \in UNION { [1..n -> RasterChars] : n \in 0..MaxRasterRamp }
    /\ font_size \in 1..MaxCellPx
    /\ font \in Fonts(Range(ascii), font_size)
    /\ cache = << >>
    /\ canvas = None
    /\ iter = 1
    /\ ret = None
    /\ exit = Running
    /\ stages = << >>
    /\ fs = Idle("fs") /\ scaler = Idle("scaler")

NextRasterize == CacheGlyph \/ AllocCanvas \/ Composite \/ Save

SpecRasterize == InitRasterize /\ [][NextRasterize]_vars

Fits(g, px) == g.width <= px /\ g.height <= px

\* the compositor has started (it may have ended since)
Compositing == pc = "composite" \/ \E i \in 1..Len(stages) : stages[i] = "composite"

\* the run ended in the panic of a glyph that does not fit its cell
GlyphAbort == pc = "done" /\ exit.code = 101 /\ ~Compositing /\ iter <= Len(ascii)

\* the character text mode writes for pixel (x, y)
TextChar(x, y) == Display_fmt(img, ascii).val[TextPos(img.width, x, y, 0)]

\* C3: raster mode over a w x h image with cell size px and a non-empty
\* ramp gives a canvas of exactly (w*px) x (h*px) pixels in which the px x px
\* block at (x*px, y*px) equals, pixel for pixel, the cached glyph bitmap of
\* the character text mode emits for pixel (x, y); no canvas pixel lies
\* outside such a block.
C3_RasterBlocks ==
    pc = "done" /\ ret # None =>
        LET out == ret[1]
            px == font_size
        IN  /\ out.width = img.width * px
            /\ out.height = img.height * px
            /\ Len(out.data) = out.width * out.height
            /\ \A x \in 0..(out.width - 1), y \in 0..(out.height - 1) :
                   get_pixel(out, x, y)
                       = get_pixel(cache[TextChar(x \div px, y \div px)], x % px, y % px)

\* a 2x2 image whose pixels select both characters of the ramp, whose
\* glyphs differ, has been composited with cells of 2x2 and saved
C3_Witness ==
    /\ pc = "done" /\ ret # None
    /\ img.width = 2 /\ img.height = 2 /\ font_size = 2
    /\ ascii = <<"#", " ">>
    /\ cache["#"] # cache[" "]
    /\ TextChar(0, 0) # TextChar(1, 1)
    /\ ret[1].width = 4 /\ ret[1].height = 4

\* C4: the glyph of a character is rasterized successfully whenever its
\* rendered width and height are both <= cellSize (equal included); when
\* either is cellSize + 1 or more the run aborts with a fatal failure that
\* names the character, and no output canvas is produced.
C4_GlyphFitOrAbort ==
    /\ \A i \in 1..Len(ascii) :
           \* a character the cache loop has got past had a glyph that fits
           (i < iter \/ Compositing) => Fits(font[ascii[i]], font_size)
    /\ GlyphAbort =>
           /\ ~Fits(font[ascii[iter]], font_size)
           /\ exit.msg = WontFit(ascii[iter])
           /\ canvas = None /\ ret = None
    /\ \A c \in DOMAIN cache : Fits(font[c], font_size)

\* the first character's glyph is exactly as high and wide as the cell and
\* was cached; the second is one pixel too wide and aborted the run
C4_Witness ==
    /\ GlyphAbort /\ iter = 2 /\ ascii[1] # ascii[2]
    /\ font[ascii[1]].width = font_size /\ font[ascii[1]].height = font_size
    /\ ascii[1] \in DOMAIN cache
    /\ font[ascii[2]].width = font_size + 1 /\ font[ascii[2]].height = font_size
    /\ exit.msg = WontFit(ascii[2])

\* the cache holds one cellSize x cellSize bitmap for each character of the
\* ramp and nothing else
CacheComplete ==
    /\ DOMAIN cache = Range(ascii)
    /\ \A c \in DOMAIN cache :
           /\ cache[c].width = font_size /\ cache[c].height = font_size
           /\ Len(cache[c].data) = font_size * font_size

\* C7: in raster mode the glyph cache is built completely before the
\* compositor's first lookup and is not written afterwards; throughout
\* compositing its keys are exactly the distinct characters of the ramp,
\* every entry is a cellSize x cellSize bitmap, and the lookup of a
\* character selected by quantization always succeeds.
C7_CacheBuiltBeforeLookups ==
    /\ [](Compositing => CacheComplete)
    /\ [](exit.msg # <<"called Option::unwrap() on a None value">>)
    /\ [][Compositing => cache' = cache]_vars

\* compositing is over for a ramp that repeats a character and holds
\* another: three ramp positions, two cache entries, four lookups
C7_Witness ==
    /\ pc = "done" /\ ret # None /\ Compositing
    /\ Len(ascii) = 3 /\ ascii[1] = ascii[3] /\ ascii[1] # ascii[2]
    /\ Cardinality(DOMAIN cache) = 2
    /\ img.width * img.height = 4 /\ Len(stages) = 7

(***************************************************************************)
(* main.  The command line is already split into its options (clap's       *)
(* work); the file system says whether the input and the font path exist.  *)
(* Decoding the image, parsing the font and writing the output may each    *)
(* fail.                                                                   *)
(***************************************************************************)
ScaleArgs == { None, Some(<<"2">>), Some(<<"1", ":", "_">>), Some(<<"_">>),
               Some(<<"x">>), Some(<<"1", ":", "2", ":", "1">>) }

TableArgs == { << >>, <<"#">>, <<"#", " ">> }

FontSizeArgs == { None, Some(<<"2">>), Some(<<"x">>) }

DefaultFontSize == <<"1", "6">>

\* the images image::open(input) may decode
InputImages == { Image(2, 1, <<0, 255>>), Image(1, 2, <<255, 100>>) }

NoInput == <<"Can not find input image!">>
NoFont == <<"Can not find font file!">>

Init ==
    /\ pc = "args"
    /\ args \in [scale : ScaleArgs, table : TableArgs, raster : BOOLEAN,
                 font : {None, Some("font.ttf")}, font_size : FontSizeArgs]
    /\ fs \in [input : BOOLEAN, font : BOOLEAN]
    /\ args.font = None => ~fs.font
    /\ img = NoImage
    /\ ascii = << >>
    /\ scaler = Scaler(None, None)
    /\ font = << >>
    /\ font_size = 0
    /\ cache = << >>
    /\ canvas = None
    /\ iter = 0
    /\ ret = None
    /\ exit = Running
    /\ stages = << >>

\* lines 238-256: the options; the font size must parse
ParseArgs ==
    /\ pc = "args"
    /\ ascii' = args.table
    /\ LET size == parse_u32(IF args.font_size = None THEN DefaultFontSize
                             ELSE args.font_size[1])
       IN  IF size.ok
           THEN /\ font_size' = size.val
                /\ pc' = "input"
                /\ UNCHANGED exit
           ELSE /\ Abort(<<"invalid font size">>)
                /\ UNCHANGED font_size
    /\ UNCHANGED <<args, fs, img, scaler, font, cache, canvas, iter, ret, stages>>

\* as CheckInput, with a failing status for the missing file
CheckInput_failing ==
    /\ pc = "input"
    /\ IF ~fs.input
       THEN /\ pc' = "done"
            /\ exit' = Exited(1, NoInput)
       ELSE /\ pc' = IF args.scale # None THEN "parse_scale" ELSE "open"
            /\ UNCHANGED exit
    /\ UNCHANGED <<args, fs, img, ascii, scaler, font, font_size, cache, canvas, iter, ret, stages>>

\* lines 258-261: a missing input prints and exits with status 0
CheckInput ==
    /\ pc = "input"
    /\ IF ~fs.input
       THEN /\ pc' = "done"
            /\ exit' = Exited(0, NoInput)
       ELSE /\ pc' = IF args.scale # None THEN "parse_scale" ELSE "open"
            /\ UNCHANGED exit
    /\ UNCHANGED <<args, fs, img, ascii, scaler, font, font_size, cache, canvas, iter, ret, stages>>

\* line 265
ParseScale ==
    /\ pc = "parse_scale"
    /\ LET r == Scaler_parse(args.scale[1])
       IN  IF r.ok
           THEN /\ scaler' = r.val
                /\ pc' = "open"
                /\ UNCHANGED exit
           ELSE /\ Abort(r.msg)
                /\ UNCHANGED scaler
    /\ UNCHANGED <<args, fs, img, ascii, font, font_size, cache, canvas, iter, ret, stages>>

\* lines 266 and 270: image::open(input).expect(..).to_luma8()
OpenImage ==
    /\ pc = "open"
    /\ \/ /\ img' \in InputImages
          /\ pc' = IF args.scale # None THEN "scale" ELSE "mode"
          /\ UNCHANGED exit
       \/ /\ Abort(<<"failed to open image">>)
          /\ UNCHANGED img
    /\ stages' = Append(stages, "load")
    /\ UNCHANGED <<args, fs, ascii, scaler, font, font_size, cache, canvas, iter, ret>>

\* line 268
ScaleImage ==
    /\ pc = "scale"
    /\ img' \in Scaler_scale(scaler, img)
    /\ pc' = "mode"
    /\ stages' = Append(stages, "resize")
    /\ UNCHANGED <<args, fs, ascii, scaler, font, font_size, cache, canvas, iter, ret, exit>>

\* lines 273-291: in raster mode the font is loaded: the user's, whose path
\* must exist, or the bundled one
LoadFont ==
    /\ pc = "mode"
    /\ args.raster
    /\ IF args.font # None /\ ~fs.font
       THEN /\ pc' = "done"
            /\ exit' = Exited(0, NoFont)
            /\ UNCHANGED <<font, iter>>
       ELSE \/ /\ font' \in Fonts(Range(ascii), font_size)
               /\ pc' = "cache"
               /\ iter' = 1
               /\ UNCHANGED exit
            \/ /\ args.font # None
               /\ Abort(<<"can't parse font file">>)
               /\ UNCHANGED <<font, iter>>
    /\ UNCHANGED <<args, fs, img, ascii, scaler, font_size, cache, canvas, ret, stages>>

\* lines 298-299: the text is formatted and written
WriteText ==
    /\ pc = "mode"
    /\ ~args.raster
    /\ LET text == Display_fmt(img, ascii)
       IN  IF ~text.ok
           THEN /\ Abort(text.msg)
                /\ UNCHANGED ret
           ELSE \/ /\ ret' = Some(text.val)
                   /\ pc' = "done"
                   /\ exit' = Exited(0, << >>)
                \/ /\ Abort(<<"failed to write output file">>)
                   /\ UNCHANGED ret
    /\ stages' = Append(stages, "format")
    /\ UNCHANGED <<args, fs, img, ascii, scaler, font, font_size, cache, canvas, iter>>

Next ==
    \/ ParseArgs \/ CheckInput \/ ParseScale \/ OpenImage \/ ScaleImage
    \/ LoadFont \/ CacheGlyph \/ AllocCanvas \/ Composite \/ Save
    \/ WriteText

Spec == Init /\ [][Next]_vars

FontSizeText == IF args.font_size = None THEN DefaultFontSize ELSE args.font_size[1]

\* the configuration errors of a command line
BadFontSize == ~parse_u32(FontSizeText).ok
BadScale == args.scale # None /\ ~Scaler_parse(args.scale[1]).ok
EmptyRamp == args.table = << >>
ConfigError == BadFontSize \/ BadScale \/ EmptyRamp

\* the resources a command line names that are not there
MissingInput == ~fs.input
MissingFont == args.font # None /\ ~fs.font

\* C5: each configuration error (a malformed scale specification, an
\* unparsable numeric argument, an empty ramp) is detected before any
\* pipeline stage (image load, resize, quantization, compositing) executes
\* and aborts the run at once with a failing termination, no output written.
\* Stated for the runs whose input and font files exist, so that the
\* configuration error is the only error of the run.
C5_ConfigErrorsAbortFirst ==
    ConfigError /\ ~MissingInput /\ ~MissingFont =>
        /\ stages = << >>
        /\ ret = None
        /\ pc = "done" => exit.code = 101

\* C6: a missing input image file or a missing user-supplied font file is
\* detected before any pipeline stage (image load, resize, glyph
\* rasterization, compositing) executes and ends the run with a user-facing
\* message and a successful exit status, no output written.  Stated for the
\* runs whose command line has no configuration error, so that the missing
\* file is the only error of the run.
C6_MissingFilesDetectedFirst ==
    (MissingInput \/ MissingFont) /\ ~ConfigError =>
        /\ stages = << >>
        /\ ret = None
        /\ pc = "done" => exit.code = 0 /\ exit.msg \in {NoInput, NoFont}

\* the panics that can end a run before the font is looked for
EarlierAborts ==
    { <<"invalid font size">>, <<"couldn't parse scale value as u32">>,
      <<"invalid scale value">>, <<"failed to open image">> }

\* C6, amended: a missing input file is detected before any pipeline stage
\* and, once the font size has parsed, ends the run with the message and
\* status 0, nothing written.  A missing font file is looked for in raster
\* mode only, after the image has been loaded and resized and before any
\* glyph is rasterized: unless the run has aborted before, it ends there
\* with the message and status 0, nothing written.  In text mode the font is
\* never looked for.
C6_MissingFilesSoftExit ==
    /\ MissingInput =>
           /\ stages = << >>
           /\ ret = None
           /\ pc = "done" =>
                  IF BadFontSize THEN exit = Exited(101, <<"invalid font size">>)
                  ELSE exit = Exited(0, NoInput)
    /\ MissingFont /\ ~MissingInput /\ args.raster =>
           /\ \A i \in 1..Len(stages) : stages[i] \in {"load", "resize"}
           /\ ret = None
           /\ pc = "done" =>
                  \/ /\ exit = Exited(0, NoFont)
                     /\ stages = IF args.scale = None THEN <<"load">>
                                 ELSE <<"load", "resize">>
                  \/ exit.code = 101 /\ exit.msg \in EarlierAborts
    /\ exit.msg = NoFont => MissingFont /\ args.raster
    /\ exit.msg = NoInput => MissingInput

\* raster mode with a font path that does not exist: the image was loaded
\* and resized, then the run ended with the font message and status 0
C6_Witness ==
    /\ pc = "done" /\ MissingFont /\ ~MissingInput /\ args.raster
    /\ exit = Exited(0, NoFont)
    /\ stages = <<"load", "resize">>
    /\ img.width = 2 /\ img.height = 2
    /\ ret = None

=============================================================================
